---- MODULE Spec2Model ----
(***************************************************************************)
(* Model of api/models.py: the adapter registry (register_model_adapter,   *)
(* get_model_adapter), the resource prober (get_gpu_memory) and the load   *)
(* orchestration (load_model, BaseModelAdapter.load_model and the          *)
(* per-family adapters).                                                   *)
(*                                                                         *)
(* Conventions.  A Python str that the code inspects character by          *)
(* character (the model name) is a sequence of one-character strings.      *)
(* Python None is the string "None".  A Python dict is a function whose    *)
(* DOMAIN is its key set.  torch dtypes are the strings "float16",         *)
(* "float32", "bfloat16".  Memory sizes are whole GiB.  The outcome of a   *)
(* call into transformers / peft / torch is chosen by the environment in   *)
(* the step that makes the call; a keyword option is chosen in the step    *)
(* whose kwargs.get reads it.                                              *)
(***************************************************************************)
EXTENDS Integers, Sequences, FiniteSets, TLC

VARIABLES
    model_adapters,      \* the global registry list (line 35)
    pc,                  \* position of the module import / of the current call
    model_name,          \* load_model: model_name after .lower(); get_model_adapter: its argument
    adapter,             \* the adapter get_model_adapter returned
    model_name_or_path,  \* argument; rebound at line 59
    adapter_model,       \* argument
    tokenizer,           \* local of BaseModelAdapter.load_model
    tok_calls,           \* every tokenizer_class.from_pretrained call of this call
    device,              \* locals read from kwargs at lines 69-72
    num_gpus,
    load_in_8bit,
    load_in_4bit,
    model_kwargs,        \* the dict bound at line 74
    available_gpu_memory,\* the list bound at line 84
    model,               \* the model handle
    model_vocab_size,    \* locals bound at lines 123-124 (0 while unbound)
    tokenzier_vocab_size,
    quantize,            \* local read at line 136 (0 stands for None)
    ops,                 \* names of the external operations invoked so far, in order
    call_args,           \* operation name -> the arguments it was last invoked with
    error,               \* the exception that left the call, or "None"
    result,              \* what the call returned: << >> (nothing) or <<model, tokenizer>>
    prev_adapter,        \* history: the adapter of the previous call, while the
                         \* current call is one of the same adapter
    prev_kwargs          \* history: the model_kwargs dict that call left behind

callvars == <<model_name, adapter, model_name_or_path, adapter_model>>
tokvars  == <<tokenizer, tok_calls>>
optvars  == <<device, num_gpus, load_in_8bit, load_in_4bit>>
planvars == <<model_kwargs, available_gpu_memory>>
vocvars  == <<model_vocab_size, tokenzier_vocab_size>>
histvars == <<prev_adapter, prev_kwargs>>
vars == <<model_adapters, pc, callvars, tokvars, optvars, planvars, model,
          vocvars, quantize, ops, call_args, error, result, histvars>>

None == "None"

----------------------------------------------------------------------------
(* Bounds of the model                                                     *)

MaxParts   == 2   \* a registry query is a concatenation of at most this many fragments
MaxGpus    == 2   \* num_gpus ranges over 1..MaxGpus
MaxDevices == 2   \* torch.cuda.device_count() ranges over 0..MaxDevices
MaxVocab   == 2   \* vocabulary sizes range over 1..MaxVocab

----------------------------------------------------------------------------
(* Strings                                                                 *)

Upper == <<"A","B","C","D","E","F","G","H","I","J","K","L","M",
           "N","O","P","Q","R","S","T","U","V","W","X","Y","Z">>
Lower == <<"a","b","c","d","e","f","g","h","i","j","k","l","m",
           "n","o","p","q","r","s","t","u","v","w","x","y","z">>

\* str.lower(), character by character
lower(s) ==
    [i \in 1..Len(s) |->
        IF \E k \in 1..Len(Upper) : Upper[k] = s[i]
        THEN Lower[CHOOSE k \in 1..Len(Upper) : Upper[k] = s[i]]
        ELSE s[i]]

\* Python's `sub in s` for strings
In(sub, s) ==
    \E i \in 0..(Len(s) - Len(sub)) : SubSeq(s, i + 1, i + Len(sub)) = sub

s_chatglm == <<"c","h","a","t","g","l","m">>
s_alpaca  == <<"a","l","p","a","c","a">>
s_baize   == <<"b","a","i","z","e">>
s_guanaco == <<"g","u","a","n","a","c","o">>
s_moss    == <<"m","o","s","s">>
s_phoenix == <<"p","h","o","e","n","i","x">>
s_firefly == <<"f","i","r","e","f","l","y">>

----------------------------------------------------------------------------
(* Adapters                                                                *)

AdapterClasses ==
    {"ChatglmModelAdapter", "LlamaModelAdapter", "MossModelAdapter",
     "PhoenixModelAdapter", "FireflyModelAdapter", "BaseModelAdapter"}

\* <adapter>.match(model_name)
match(self, name) ==
    CASE self = "ChatglmModelAdapter" -> In(s_chatglm, name)
      [] self = "LlamaModelAdapter"   ->
            In(s_alpaca, name) \/ In(s_baize, name) \/ In(s_guanaco, name)
      [] self = "MossModelAdapter"    -> In(s_moss, name)
      [] self = "PhoenixModelAdapter" -> In(s_phoenix, name)
      [] self = "FireflyModelAdapter" -> In(s_firefly, name)
      [] OTHER                        -> TRUE

\* the model_class property
model_class(self) ==
    IF self = "ChatglmModelAdapter" THEN "AutoModel" ELSE "AutoModelForCausalLM"

\* A dict shared by all calls of one adapter, as a class attribute would be.
model_kwargs_shared(self) ==
    IF prev_adapter = self /\ DOMAIN prev_kwargs # {}
    THEN prev_kwargs
    ELSE CASE self \in {"ChatglmModelAdapter", "MossModelAdapter"} ->
                  [trust_remote_code |-> TRUE]
           [] self \in {"LlamaModelAdapter", "PhoenixModelAdapter"} ->
                  [low_cpu_mem_usage |-> TRUE]
           [] self = "FireflyModelAdapter" -> [torch_dtype |-> "float32"]
           [] OTHER -> << >>

\* the model_kwargs property: a new dict at every access
model_kwargs_of(self) ==
    CASE self \in {"ChatglmModelAdapter", "MossModelAdapter"} ->
             [trust_remote_code |-> TRUE]
      [] self \in {"LlamaModelAdapter", "PhoenixModelAdapter"} ->
             [low_cpu_mem_usage |-> TRUE]
      [] self = "FireflyModelAdapter" -> [torch_dtype |-> "float32"]
      [] OTHER -> << >>

\* the tokenizer_kwargs property
tokenizer_kwargs(self) ==
    CASE self \in {"ChatglmModelAdapter", "MossModelAdapter"} ->
             [use_fast |-> FALSE, trust_remote_code |-> TRUE]
      [] self \in {"PhoenixModelAdapter", "FireflyModelAdapter"} ->
             [use_fast |-> TRUE]
      [] OTHER -> [use_fast |-> FALSE]

\* the default_model_name_or_path property
default_model_name_or_path(self) ==
    CASE self = "ChatglmModelAdapter" -> "THUDM/chatglm-6b"
      [] self = "MossModelAdapter"    -> "fnlp/moss-moon-003-sft-int4"
      [] self = "PhoenixModelAdapter" -> "FreedomIntelligence/phoenix-inst-chat-7b"
      [] self = "FireflyModelAdapter" -> "YeungNLP/firefly-2b6"
      [] OTHER                        -> "zpn/llama-7b"

\* <adapter>.post_tokenizer(tokenizer)
post_tokenizer(self, tok) ==
    IF self = "LlamaModelAdapter"
    THEN [tok EXCEPT !.bos_token = "<s>", !.eos_token = "</s>", !.unk_token = "<unk>"]
    ELSE tok

----------------------------------------------------------------------------
(* Registry                                                                *)

\* the register_model_adapter calls of lines 292-298, in order
Registrations ==
    <<"ChatglmModelAdapter", "LlamaModelAdapter", "MossModelAdapter",
      "PhoenixModelAdapter", "FireflyModelAdapter", "BaseModelAdapter">>

\* A registration that puts the new adapter in front.
register_prepend(registry, cls) == <<cls>> \o registry

\* register_model_adapter: model_adapters.append(cls())
register_append(registry, cls) == Append(registry, cls)

RECURSIVE scan(_, _, _)
scan(registry, i, name) ==
    IF i > Len(registry) THEN "ValueError"
    ELSE IF match(registry[i], name) THEN registry[i]
    ELSE scan(registry, i + 1, name)

\* get_model_adapter: the first adapter of the list whose match is true
get_model_adapter(name) == scan(model_adapters, 1, name)

----------------------------------------------------------------------------
(* Inputs and environment                                                  *)

Fragments ==
    {s_chatglm, s_alpaca, s_baize, s_guanaco, s_moss, s_phoenix, s_firefly,
     <<"c","h","a","t">>, <<"g","l","m">>, <<"-","7","b">>}

RECURSIVE concat(_)
concat(parts) ==
    IF parts = << >> THEN << >> ELSE Head(parts) \o concat(Tail(parts))

\* the lowercase identifiers get_model_adapter is queried with
Queries ==
    { concat(parts) : parts \in UNION { [1..n -> Fragments] : n \in 1..MaxParts } }

\* the identifiers load_model is called with
ModelNames ==
    { <<"C","h","a","t","G","L","M">>, <<"A","l","p","a","c","a">>, s_moss,
      <<"P","h","o","e","n","i","x">>, s_firefly, <<"l","l","a","m","a">> }

Locations     == {None, "path/to/model"}
AdapterModels == {None, "path/to/adapter"}
Devices       == {"cpu", "cuda"}
Quantizes     == {0, 8, 16}
TokOutcomes   == {"ok", "OSError", "ValueError"}
CallOutcomes  == {"ok", "OSError"}
ModelTypes    == {"modeling_chatglm.ChatGLMForConditionalGeneration",
                  "modeling_llama.LlamaForCausalLM"}

\* what torch.cuda reports for one device, in GiB
DeviceStates == {[total |-> 24, allocated |-> 4], [total |-> 24, allocated |-> 14]}

\* the machine: one entry per device torch.cuda.device_count() counts
Machines == UNION { [1..n -> DeviceStates] : n \in 0..MaxDevices }

NoModel     == [built |-> FALSE]
NoTokenizer == [built |-> FALSE]
EmptyDict   == << >>

----------------------------------------------------------------------------
(* Initial state and module import                                         *)

Init ==
    /\ model_adapters = << >>
    /\ pc = "import"
    /\ model_name = None
    /\ adapter = None
    /\ model_name_or_path = None
    /\ adapter_model = None
    /\ tokenizer = NoTokenizer
    /\ tok_calls = << >>
    /\ device = None
    /\ num_gpus = 0
    /\ load_in_8bit = FALSE
    /\ load_in_4bit = FALSE
    /\ model_kwargs = EmptyDict
    /\ available_gpu_memory = << >>
    /\ model = NoModel
    /\ model_vocab_size = 0
    /\ tokenzier_vocab_size = 0
    /\ quantize = 0
    /\ ops = << >>
    /\ call_args = EmptyDict
    /\ error = None
    /\ result = << >>
    /\ prev_adapter = None
    /\ prev_kwargs = EmptyDict

\* lines 292-298: the next register_model_adapter statement of the module
register_model_adapter ==
    /\ pc = "import"
    /\ LET k == Len(model_adapters) + 1 IN
        /\ k <= Len(Registrations)
        /\ model_adapters' = register_append(model_adapters, Registrations[k])
        /\ pc' = IF k = Len(Registrations) THEN "idle" ELSE "import"
    /\ UNCHANGED <<callvars, tokvars, optvars, planvars, model, vocvars, quantize, ops,
                   call_args, error, result, histvars>>

\* a direct call get_model_adapter(name) from the importing program
GetModelAdapter ==
    /\ pc \in {"idle", "resolved"}
    /\ \E name \in Queries :
        LET a == get_model_adapter(name) IN
        /\ model_name' = name
        /\ adapter' = IF a = "ValueError" THEN None ELSE a
        /\ error' = IF a = "ValueError" THEN "ValueError" ELSE None
    /\ pc' = "resolved"
    /\ UNCHANGED <<model_adapters, model_name_or_path, adapter_model, tokvars,
                   optvars, planvars, model, vocvars, quantize, ops, call_args, result,
                   histvars>>

----------------------------------------------------------------------------
(* Resource prober and load plan                                           *)

Min(a, b) == IF a < b THEN a ELSE b

\* dict[k] = v
Put(d, k, v) == [x \in DOMAIN d \cup {k} |-> IF x = k THEN v ELSE d[x]]

\* dict.get(k, default)
Get(d, k, default) == IF k \in DOMAIN d THEN d[k] ELSE default

\* get_gpu_memory(max_gpus) on a machine: total - allocated per device, from
\* device 0 up.  Its one caller (line 84) passes an integer, so the
\* max_gpus=None default is not modelled.
get_gpu_memory(max_gpus, machine) ==
    LET n == Min(max_gpus, Len(machine))
    IN  [gpu_id \in 1..n |-> machine[gpu_id].total - machine[gpu_id].allocated]

\* A ceiling that leaves no headroom.
memory_ceiling_full(available) == ToString(available) \o "GiB"

\* line 86: str(int(available * 0.85)) + "GiB"
memory_ceiling(available) == ToString((available * 85) \div 100) \o "GiB"

\* lines 81-88; the list index of line 86 raises IndexError past the end of the list
MultiGpuIndexError(dev, n, memory) == dev # "cpu" /\ n # 1 /\ Len(memory) < n

\* lines 74-98: model_kwargs after the plan is built (no IndexError)
load_plan(kw, dev, n, in8, in4, memory) ==
    IF dev = "cpu" THEN Put(kw, "torch_dtype", "float32")
    ELSE
      LET a == IF "torch_dtype" \notin DOMAIN kw
               THEN Put(kw, "torch_dtype", "float16") ELSE kw
          b == IF n # 1
               THEN Put(Put(Put(a, "device_map", "auto"), "device_map", "sequential"),
                        "max_memory",
                        [i \in 0..(n - 1) |-> memory_ceiling(memory[i + 1])])
               ELSE a
      IN  IF in8 \/ in4
          THEN Put(Put(Put(Put(b, "torch_dtype", None),
                   "load_in_8bit", in8), "load_in_4bit", in4), "device_map", "auto")
          ELSE b

\* lines 74-83: model_kwargs when line 86 raises
load_plan_partial(kw, dev) ==
    LET a == IF "torch_dtype" \notin DOMAIN kw
             THEN Put(kw, "torch_dtype", "float16") ELSE kw
    IN  Put(a, "device_map", "sequential")

\* A builder call that passes the load plan on the 4-bit path too.
builder_kwargs_plan(kw, in4) == kw

\* lines 100-115: the keyword arguments model_class.from_pretrained is called with
builder_kwargs(kw, in4) ==
    IF in4
    THEN [torch_dtype |-> "bfloat16",
          quantization_config |->
              [load_in_4bit |-> TRUE, bnb_4bit_compute_dtype |-> "bfloat16",
               bnb_4bit_use_double_quant |-> TRUE, bnb_4bit_quant_type |-> "nf4"]]
    ELSE kw

\* line 119
is_chatglm(m) == m.type = "modeling_chatglm.ChatGLMForConditionalGeneration"

\* A comparison of the vocabularies in every call.
vocab_compared_always(am, m) == TRUE

\* lines 121-122: the vocabularies are compared when a fine-tuning adapter is
\* given and the model is not of the chatglm family
vocab_compared(am, m) == am # None /\ ~is_chatglm(m)

\* line 151: model_kwargs.get("torch_dtype", torch.float16)
merge_dtype(kw) == Get(kw, "torch_dtype", "float16")

\* An except clause that catches nothing.
caught_none(exc) == FALSE

\* line 64: except OSError
caught(exc) == exc = "OSError"

\* A move that ignores the quantization flags.
needs_move_unquantized(dev, n, in8, in4) == dev # "cpu" /\ n = 1

\* line 140
needs_move(dev, n, in8, in4) == dev # "cpu" /\ ~in4 /\ ~in8 /\ n = 1

----------------------------------------------------------------------------
(* load_model, step by step                                                *)

Raise(exc) == pc' = "raised" /\ error' = exc

\* lines 187-189: a call of load_model, up to the call of adapter.load_model
load_model ==
    /\ pc = "idle"
    /\ \E name \in ModelNames, location \in Locations, am \in AdapterModels :
       \E a \in {get_model_adapter(lower(name))} :
        /\ model_name' = lower(name)
        /\ model_name_or_path' = location
        /\ adapter_model' = am
        /\ adapter' = IF a = "ValueError" THEN None ELSE a
        /\ error' = IF a = "ValueError" THEN "ValueError" ELSE None
        /\ pc' = IF a = "ValueError" THEN "raised" ELSE "tokenizer"
        /\ prev_adapter' = IF a = prev_adapter THEN prev_adapter ELSE None
        /\ prev_kwargs' = IF a = prev_adapter THEN prev_kwargs ELSE EmptyDict
    /\ UNCHANGED <<model_adapters, tokvars, optvars, planvars, model, vocvars,
                   quantize, ops, call_args, result>>

\* lines 189-197: the call is over (the pair is returned, or the exception
\* propagates) and the caller goes on.  The locals of the call are gone; what
\* the call left of its model_kwargs dict is kept as history until the next
\* call of the same adapter has built its own (a call of another adapter
\* drops it).
ReturnToCaller ==
    /\ pc \in {"returned", "raised"}
    /\ pc' = "idle"
    /\ prev_adapter' = adapter
    /\ prev_kwargs' = model_kwargs
    /\ model_name' = None
    /\ adapter' = None
    /\ model_name_or_path' = None
    /\ adapter_model' = None
    /\ tokenizer' = NoTokenizer
    /\ tok_calls' = << >>
    /\ device' = None
    /\ num_gpus' = 0
    /\ load_in_8bit' = FALSE
    /\ load_in_4bit' = FALSE
    /\ model_kwargs' = EmptyDict
    /\ available_gpu_memory' = << >>
    /\ model' = NoModel
    /\ model_vocab_size' = 0
    /\ tokenzier_vocab_size' = 0
    /\ quantize' = 0
    /\ ops' = << >>
    /\ call_args' = EmptyDict
    /\ error' = None
    /\ result' = << >>
    /\ UNCHANGED model_adapters

NewTokenizer(location, kw) ==
    [built |-> TRUE, src |-> location, kwargs |-> kw,
     vocab |-> 0,
     bos_token |-> "default", eos_token |-> "default", unk_token |-> "default"]

TokCall(location, kw, outcome) ==
    [location |-> location, kwargs |-> kw, outcome |-> outcome]

\* lines 59-67: the effective model location and the tokenizer
LoadTokenizer ==
    /\ pc = "tokenizer"
    /\ LET base == IF model_name_or_path = None
                   THEN default_model_name_or_path(adapter) ELSE model_name_or_path
           kw   == tokenizer_kwargs(adapter)
       IN
        /\ model_name_or_path' = base
        /\ \E first \in TokOutcomes, second \in TokOutcomes :
            LET retry == adapter_model # None /\ first # "ok" /\ caught(first)
                from1 == IF adapter_model # None THEN adapter_model ELSE base
                calls == IF retry
                         THEN <<TokCall(from1, kw, first), TokCall(base, kw, second)>>
                         ELSE <<TokCall(from1, kw, first)>>
                last  == calls[Len(calls)]
            IN
            /\ tok_calls' = calls
            /\ ops' = ops \o [i \in 1..Len(calls) |-> "tokenizer.from_pretrained"]
            /\ IF last.outcome = "ok"
               THEN /\ tokenizer' = NewTokenizer(last.location, kw)
                    /\ pc' = "plan"
                    /\ error' = error
               ELSE /\ tokenizer' = tokenizer
                    /\ Raise(last.outcome)
    /\ UNCHANGED <<model_adapters, model_name, adapter, adapter_model, optvars,
                   planvars, model, vocvars, quantize, call_args, result, histvars>>

\* lines 69-98: the options are read and the load plan is built
BuildPlan ==
    /\ pc = "plan"
    /\ \E dev \in Devices, n \in 1..MaxGpus, in8 \in BOOLEAN, in4 \in BOOLEAN :
       \E machine \in IF dev # "cpu" /\ n # 1 THEN Machines ELSE {<< >>} :
        LET memory == IF dev # "cpu" /\ n # 1
                      THEN get_gpu_memory(n, machine) ELSE << >>
            kw     == model_kwargs_of(adapter)
        IN
        /\ device' = dev
        /\ num_gpus' = n
        /\ load_in_8bit' = in8
        /\ load_in_4bit' = in4
        /\ available_gpu_memory' = memory
        /\ IF MultiGpuIndexError(dev, n, memory)
           THEN /\ model_kwargs' = load_plan_partial(kw, dev)
                /\ ops' = ops
                /\ Raise("IndexError")
           ELSE /\ model_kwargs' = load_plan(kw, dev, n, in8, in4, memory)
                /\ ops' = IF dev # "cpu" /\ (in8 \/ in4) /\ n # 1
                          THEN Append(ops, "warnings.warn") ELSE ops
                /\ pc' = "construct"
                /\ error' = error
    /\ UNCHANGED <<model_adapters, callvars, tokvars, model, vocvars, quantize, call_args,
                   result, histvars>>

\* lines 100-115: model_class.from_pretrained
ConstructModel ==
    /\ pc = "construct"
    /\ \E outcome \in CallOutcomes, type \in ModelTypes :
        /\ ops' = Append(ops, "model.from_pretrained")
        /\ call_args' = Put(call_args, "model.from_pretrained",
                            [location |-> model_name_or_path,
                             kwargs |-> builder_kwargs(model_kwargs, load_in_4bit)])
        /\ IF outcome = "ok"
           THEN /\ model' = [built |-> TRUE, cls |-> model_class(adapter),
                             type |-> type, embeddings |-> 0, peft |-> FALSE,
                             quantized |-> 0, device |-> None, training |-> TRUE]
                /\ pc' = "post_tokenizer"
                /\ error' = error
           ELSE /\ model' = model
                /\ Raise(outcome)
    /\ prev_adapter' = None
    /\ prev_kwargs' = EmptyDict
    /\ UNCHANGED <<model_adapters, callvars, tokvars, optvars, planvars, vocvars, quantize,
                   result>>

\* line 118: tokenizer = self.post_tokenizer(tokenizer)
PostTokenizer ==
    /\ pc = "post_tokenizer"
    /\ tokenizer' = post_tokenizer(adapter, tokenizer)
    /\ ops' = Append(ops, "post_tokenizer")
    /\ pc' = "vocab"
    /\ UNCHANGED <<model_adapters, callvars, tok_calls, optvars, planvars, model,
                   vocvars, quantize, call_args, error, result, histvars>>

\* lines 121-131: vocabulary reconciliation.  The sizes of the two
\* vocabularies are fixed by the files that were loaded; they are recorded on
\* the two objects here, the first place the code may look at them.
ReconcileVocab ==
    /\ pc = "vocab"
    /\ \E mv \in 1..MaxVocab, tv \in 1..MaxVocab :
        LET compared == vocab_compared(adapter_model, model)
            resize   == compared /\ mv # tv /\ tv > mv
            failed   == compared /\ mv # tv /\ ~(tv > mv)
        IN
        /\ tokenizer' = [tokenizer EXCEPT !.vocab = tv]
        /\ model' = [model EXCEPT !.embeddings = IF resize THEN tv ELSE mv]
        /\ model_vocab_size' = IF compared THEN mv ELSE model_vocab_size
        /\ tokenzier_vocab_size' = IF compared THEN tv ELSE tokenzier_vocab_size
        /\ ops' = IF resize THEN Append(ops, "model.resize_token_embeddings") ELSE ops
        /\ call_args' = IF resize
                        THEN Put(call_args, "model.resize_token_embeddings", tv)
                        ELSE call_args
        /\ IF failed
           THEN Raise("AssertionError")
           ELSE pc' = "merge" /\ error' = error
    /\ UNCHANGED <<model_adapters, callvars, tok_calls, optvars, planvars, quantize,
                   result, histvars>>

\* line 133: model = self.load_adapter_model(model, adapter_model, model_kwargs)
MergeAdapter ==
    /\ pc = "merge"
    /\ IF adapter_model = None
       THEN /\ pc' = "quantize"
            /\ UNCHANGED <<model, ops, call_args, error>>
       ELSE \E outcome \in CallOutcomes :
            /\ ops' = Append(ops, "PeftModel.from_pretrained")
            /\ call_args' = Put(call_args, "PeftModel.from_pretrained",
                                [adapter_model |-> adapter_model,
                                 torch_dtype |-> merge_dtype(model_kwargs)])
            /\ IF outcome = "ok"
               THEN /\ model' = [model EXCEPT !.peft = TRUE]
                    /\ pc' = "quantize"
                    /\ error' = error
               ELSE /\ model' = model
                    /\ Raise(outcome)
    /\ UNCHANGED <<model_adapters, callvars, tokvars, optvars, planvars, vocvars,
                   quantize, result, histvars>>

\* lines 135-138: the chatglm family's own quantization
ChatglmQuantize ==
    /\ pc = "quantize"
    /\ IF is_chatglm(model)
       THEN \E q \in Quantizes :
            /\ quantize' = q
            /\ IF q # 0 /\ q # 16
               THEN /\ model' = [model EXCEPT !.quantized = q]
                    /\ ops' = Append(ops, "model.quantize")
                    /\ call_args' = Put(call_args, "model.quantize", q)
               ELSE UNCHANGED <<model, ops, call_args>>
       ELSE UNCHANGED <<quantize, model, ops, call_args>>
    /\ pc' = "place"
    /\ UNCHANGED <<model_adapters, callvars, tokvars, optvars, planvars, vocvars,
                   error, result, histvars>>

\* lines 140-141: the explicit move to the device
PlaceModel ==
    /\ pc = "place"
    /\ IF needs_move(device, num_gpus, load_in_8bit, load_in_4bit)
       THEN /\ model' = [model EXCEPT !.device = device]
            /\ ops' = Append(ops, "model.to")
            /\ call_args' = Put(call_args, "model.to", device)
       ELSE UNCHANGED <<model, ops, call_args>>
    /\ pc' = "eval"
    /\ UNCHANGED <<model_adapters, callvars, tokvars, optvars, planvars, vocvars,
                   quantize, error, result, histvars>>

\* A return that leaves the model in training mode.
ReturnWithoutEval ==
    /\ pc = "eval"
    /\ result' = <<model, tokenizer>>
    /\ pc' = "returned"
    /\ UNCHANGED <<model_adapters, callvars, tokvars, optvars, planvars, model,
                   vocvars, quantize, ops, call_args, error, histvars>>

\* lines 143-145: model.eval(), then return model, tokenizer
EvalAndReturn ==
    /\ pc = "eval"
    /\ model' = [model EXCEPT !.training = FALSE]
    /\ ops' = Append(ops, "model.eval")
    /\ result' = <<model', tokenizer>>
    /\ pc' = "returned"
    /\ UNCHANGED <<model_adapters, callvars, tokvars, optvars, planvars, vocvars,
                   quantize, call_args, error, histvars>>

----------------------------------------------------------------------------
(* Specifications                                                          *)

Next ==
    \/ register_model_adapter
    \/ load_model
    \/ LoadTokenizer
    \/ BuildPlan
    \/ ConstructModel
    \/ PostTokenizer
    \/ ReconcileVocab
    \/ MergeAdapter
    \/ ChatglmQuantize
    \/ PlaceModel
    \/ EvalAndReturn
    \/ ReturnToCaller

\* the program: import, then any sequence of load_model calls
Spec == Init /\ [][Next]_vars

\* the registry on its own: import, then any sequence of get_model_adapter calls
SpecRegistry == Init /\ [][register_model_adapter \/ GetModelAdapter]_vars

----------------------------------------------------------------------------
(* Vocabulary of the claims                                                *)

Invoked(op) == op \in DOMAIN call_args

Occurs(op) == \E i \in 1..Len(ops) : ops[i] = op

Count(op) == Cardinality({i \in 1..Len(ops) : ops[i] = op})

\* the load plan of the current call is complete (lines 74-98 ran through)
PlanBuilt == DOMAIN model_kwargs # {} /\ error # "IndexError"

QuantRequested == load_in_8bit \/ load_in_4bit

\* floor(0.85 * a) for a whole number a: the k with k <= 0.85 a < k + 1
Floor85(a) == CHOOSE k \in 0..a : 100 * k <= 85 * a /\ 85 * a < 100 * (k + 1)

\* max_memory holds floor(0.85 x probed available memory) GiB for devices 0..num_gpus-1
CeilingsRight ==
    /\ "max_memory" \in DOMAIN model_kwargs
    /\ DOMAIN model_kwargs.max_memory = 0..(num_gpus - 1)
    /\ Len(available_gpu_memory) >= num_gpus
    /\ \A i \in 0..(num_gpus - 1) :
           model_kwargs.max_memory[i] =
               ToString(Floor85(available_gpu_memory[i + 1])) \o "GiB"

----------------------------------------------------------------------------
(* C1: over the registry as populated at import, get_model_adapter returns *)
(* for every lowercase identifier the first adapter, in registration       *)
(* order, whose match is true; BaseModelAdapter is returned exactly when   *)
(* none of the five specific adapters matches; ValueError is never raised. *)
C1_FirstMatchWins ==
    pc = "resolved" =>
        /\ model_adapters = Registrations
        /\ error = None
        /\ \E i \in 1..Len(Registrations) :
              /\ adapter = Registrations[i]
              /\ match(Registrations[i], model_name)
              /\ \A j \in 1..(i - 1) : ~match(Registrations[j], model_name)
        /\ (adapter = "BaseModelAdapter") <=>
              (\A c \in AdapterClasses \ {"BaseModelAdapter"} : ~match(c, model_name))

\* an identifier two specific adapters (and the catch-all) match: the earlier one is returned
C1_Witness ==
    /\ pc = "resolved"
    /\ adapter = "LlamaModelAdapter"
    /\ match("MossModelAdapter", model_name)
    /\ match("BaseModelAdapter", model_name)

----------------------------------------------------------------------------
(* C2 as stated: whenever the model builder is called with num_gpus > 1,   *)
(* whatever device and the quantization flags are, max_memory[i] is        *)
(* floor(0.85 x available memory of device i) GiB for every i and          *)
(* device_map is "sequential".                                             *)
C2_AsStated ==
    (Invoked("model.from_pretrained") /\ num_gpus > 1) =>
        /\ CeilingsRight
        /\ "device_map" \in DOMAIN model_kwargs
        /\ model_kwargs.device_map = "sequential"

(* C2 as amended: whenever the model builder is called with num_gpus > 1   *)
(* and a device other than "cpu", max_memory[i] is floor(0.85 x available  *)
(* memory of device i) GiB for every i, and device_map is "sequential"     *)
(* when neither quantization flag is set and "auto" when one is; with      *)
(* device "cpu" the plan has neither device_map nor max_memory.            *)
C2_MultiGpuPlan ==
    (Invoked("model.from_pretrained") /\ num_gpus > 1) =>
        IF device # "cpu"
        THEN /\ CeilingsRight
             /\ "device_map" \in DOMAIN model_kwargs
             /\ model_kwargs.device_map =
                    IF QuantRequested THEN "auto" ELSE "sequential"
        ELSE /\ "device_map" \notin DOMAIN model_kwargs
             /\ "max_memory" \notin DOMAIN model_kwargs

\* two devices with 20 GiB and 10 GiB available: ceilings 17GiB and 8GiB, sequential
C2_Witness ==
    /\ Invoked("model.from_pretrained")
    /\ num_gpus = 2
    /\ device = "cuda"
    /\ ~QuantRequested
    /\ available_gpu_memory = <<20, 10>>
    /\ model_kwargs.max_memory = (0 :> "17GiB" @@ 1 :> "8GiB")
    /\ model_kwargs.device_map = "sequential"

----------------------------------------------------------------------------
----------------------------------------------------------------------------
(* C4 as stated: in every load_model call, past the vocabulary step,       *)
(* resize_token_embeddings has been invoked if and only if the tokenizer   *)
(* vocabulary is larger than the model's input-embedding vocabulary.       *)
C4_AsStated ==
    pc \in {"merge", "quantize", "place", "eval", "returned"} =>
        (Occurs("model.resize_token_embeddings") <=>
            tokenizer.vocab >
                (IF Occurs("model.resize_token_embeddings")
                 THEN model_vocab_size ELSE model.embeddings))

(* C4 as amended: in every load_model call with adapter_model given and a  *)
(* model that is not of the chatglm family, once the vocabulary step       *)
(* (lines 121-131) has run, resize_token_embeddings has been invoked if    *)
(* and only if the tokenizer vocabulary is larger than the model's; with   *)
(* equal sizes there is no resize and no AssertionError, with a smaller    *)
(* tokenizer vocabulary the assertion fires.  In every other call the      *)
(* sizes are not compared and no resize happens.                           *)
C4_ResizeIffLargerWithAdapter ==
    /\ (model.built /\ tokenizer.built /\ tokenizer.vocab # 0) =>
        IF adapter_model # None /\ ~is_chatglm(model)
        THEN /\ model_vocab_size # 0 /\ tokenzier_vocab_size = tokenizer.vocab
             /\ Occurs("model.resize_token_embeddings")
                    <=> tokenzier_vocab_size > model_vocab_size
             /\ Occurs("model.resize_token_embeddings") =>
                    /\ call_args["model.resize_token_embeddings"] = tokenzier_vocab_size
                    /\ model.embeddings = tokenzier_vocab_size
             /\ tokenzier_vocab_size = model_vocab_size => error # "AssertionError"
             /\ tokenzier_vocab_size < model_vocab_size => error = "AssertionError"
        ELSE /\ ~Occurs("model.resize_token_embeddings")
             /\ error # "AssertionError"
    /\ Occurs("model.resize_token_embeddings") => tokenizer.vocab # 0

C4_Witness ==
    /\ pc = "returned"
    /\ adapter_model # None
    /\ Occurs("model.resize_token_embeddings")
    /\ model_vocab_size = 1
    /\ tokenzier_vocab_size = 2
    /\ model.embeddings = 2

----------------------------------------------------------------------------
(* The model builder was called with the 4-bit quantization descriptor:    *)
(* double quantization enabled and quant type "nf4".                       *)
BuiltWithNf4 ==
    /\ Invoked("model.from_pretrained")
    /\ "quantization_config" \in DOMAIN call_args["model.from_pretrained"].kwargs
    /\ LET q == call_args["model.from_pretrained"].kwargs.quantization_config IN
        /\ q.load_in_4bit
        /\ q.bnb_4bit_use_double_quant
        /\ q.bnb_4bit_quant_type = "nf4"

(* C5 as stated: in every call with load_in_4bit true, on every device,    *)
(* the load plan has torch_dtype None, and the model builder is called     *)
(* with the double-quantization "nf4" descriptor.                          *)
C5_AsStated ==
    (load_in_4bit /\ Invoked("model.from_pretrained")) =>
        /\ model_kwargs.torch_dtype = None
        /\ BuiltWithNf4

(* C5 as amended: in every call with load_in_4bit true that reaches model  *)
(* construction, the load plan has torch_dtype None when device is not     *)
(* "cpu" and float32 when device is "cpu"; on every device the model       *)
(* builder is called with the double-quantization "nf4" descriptor, and    *)
(* with none of the load plan's keys.                                      *)
C5_FourBitPlanAndDescriptor ==
    /\ (load_in_4bit /\ PlanBuilt) =>
        model_kwargs.torch_dtype = IF device = "cpu" THEN "float32" ELSE None
    /\ (load_in_4bit /\ Invoked("model.from_pretrained")) =>
        /\ BuiltWithNf4
        /\ DOMAIN call_args["model.from_pretrained"].kwargs =
               {"torch_dtype", "quantization_config"}
        /\ call_args["model.from_pretrained"].kwargs.torch_dtype = "bfloat16"

C5_Witness ==
    /\ load_in_4bit
    /\ device = "cuda"
    /\ pc = "returned"
    /\ model_kwargs.torch_dtype = None
    /\ BuiltWithNf4

----------------------------------------------------------------------------
(* C6: in every call with device "cpu", whatever num_gpus and the          *)
(* quantization flags are, the model builder is called with torch_dtype    *)
(* float32, with no quantization option or descriptor, and with no         *)
(* device_map or max_memory.                                               *)
C6_CpuFullPrecision ==
    (device = "cpu" /\ Invoked("model.from_pretrained")) =>
        LET kw == call_args["model.from_pretrained"].kwargs IN
        /\ kw.torch_dtype = "float32"
        /\ DOMAIN kw \cap {"quantization_config", "load_in_8bit", "load_in_4bit",
                           "device_map", "max_memory"} = {}

----------------------------------------------------------------------------
(* C7 as stated: when adapter_model is given and the tokenizer             *)
(* construction from it fails, a second construction is made from the      *)
(* base location with the same options, and the call raises from the       *)
(* tokenizer step only when that second construction fails too; without    *)
(* adapter_model exactly one construction is made, from the base location. *)
C7_AsStated ==
    Len(tok_calls) >= 1 =>
        IF adapter_model # None
        THEN tok_calls[1].outcome # "ok" =>
                /\ Len(tok_calls) = 2
                /\ tok_calls[2].location = model_name_or_path
                /\ tok_calls[2].kwargs = tok_calls[1].kwargs
                /\ ~tokenizer.built <=> tok_calls[2].outcome # "ok"
        ELSE /\ Len(tok_calls) = 1
             /\ tok_calls[1].location = model_name_or_path

(* C7 as amended: when adapter_model is given and the tokenizer            *)
(* construction from it fails with OSError, the failure is caught and the  *)
(* tokenizer is constructed from the effective base location               *)
(* (model_name_or_path, or the adapter's default) with the same options;   *)
(* the call then raises only when that second construction fails too.  A   *)
(* first failure of any other kind propagates at once, without a second    *)
(* attempt.  Without adapter_model exactly one construction is made, from  *)
(* the base location.                                                      *)
C7_FallbackOnOSError ==
    Len(tok_calls) >= 1 =>
        /\ model_name_or_path \in {"path/to/model", default_model_name_or_path(adapter)}
        /\ \A i \in 1..Len(tok_calls) : tok_calls[i].kwargs = tokenizer_kwargs(adapter)
        /\ IF adapter_model # None
           THEN /\ tok_calls[1].location = adapter_model
                /\ Len(tok_calls) = 2 <=> tok_calls[1].outcome = "OSError"
                /\ Len(tok_calls) = 2 =>
                      /\ tok_calls[2].location = model_name_or_path
                      /\ tok_calls[2].kwargs = tok_calls[1].kwargs
           ELSE /\ Len(tok_calls) = 1
                /\ tok_calls[1].location = model_name_or_path
        /\ Count("tokenizer.from_pretrained") = Len(tok_calls)
        /\ LET last == tok_calls[Len(tok_calls)] IN
            IF last.outcome = "ok"
            THEN tokenizer.built /\ tokenizer.src = last.location
            ELSE ~tokenizer.built /\ pc = "raised" /\ error = last.outcome

\* the first construction raised OSError, the second succeeded, and the call returned
C7_Witness ==
    /\ pc = "returned"
    /\ adapter_model # None
    /\ Len(tok_calls) = 2
    /\ tok_calls[1].outcome = "OSError"
    /\ tok_calls[2].outcome = "ok"
    /\ tokenizer.src = model_name_or_path

----------------------------------------------------------------------------
(* C8: whenever the fine-tuning merge is invoked, its torch_dtype is the   *)
(* precision of the load plan, and float16 where the load plan carries no  *)
(* precision (the quantized paths, which cleared it, included).            *)
C8_MergePrecision ==
    Invoked("PeftModel.from_pretrained") =>
        call_args["PeftModel.from_pretrained"].torch_dtype =
            IF "torch_dtype" \in DOMAIN model_kwargs /\ model_kwargs.torch_dtype # None
            THEN model_kwargs.torch_dtype
            ELSE "float16"

----------------------------------------------------------------------------
\* the keys an adapter's model_kwargs property supplies
DefaultKeys(self) ==
    CASE self \in {"ChatglmModelAdapter", "MossModelAdapter"} -> {"trust_remote_code"}
      [] self \in {"LlamaModelAdapter", "PhoenixModelAdapter"} -> {"low_cpu_mem_usage"}
      [] self = "FireflyModelAdapter" -> {"torch_dtype"}
      [] OTHER -> {}

(* C9: load_model leaves the registry as the import left it, and the load  *)
(* plan of a call holds only what the resolved adapter supplies and what   *)
(* this call's device, num_gpus, load_in_8bit and load_in_4bit put there:  *)
(* nothing of an earlier call's plan is in it.                             *)
C9_NoCarryOver ==
    /\ pc # "import" => model_adapters = Registrations
    /\ (DOMAIN model_kwargs # {}) =>
        /\ DOMAIN model_kwargs =
              DefaultKeys(adapter) \cup {"torch_dtype"}
              \cup (IF device # "cpu" /\ num_gpus # 1
                    THEN {"device_map"} ELSE {})
              \cup (IF device # "cpu" /\ num_gpus # 1 /\ error # "IndexError"
                    THEN {"max_memory"} ELSE {})
              \cup (IF device # "cpu" /\ QuantRequested /\ error # "IndexError"
                    THEN {"device_map", "load_in_8bit", "load_in_4bit"} ELSE {})
        /\ \A k \in DefaultKeys(adapter) \ {"torch_dtype"} : model_kwargs[k] = TRUE
        /\ PlanBuilt =>
            /\ model_kwargs.torch_dtype =
                  IF device = "cpu" THEN "float32"
                  ELSE IF QuantRequested THEN None
                  ELSE IF adapter = "FireflyModelAdapter" THEN "float32"
                  ELSE "float16"
            /\ "device_map" \in DOMAIN model_kwargs =>
                  model_kwargs.device_map =
                      IF QuantRequested THEN "auto" ELSE "sequential"
            /\ "load_in_8bit" \in DOMAIN model_kwargs =>
                  /\ model_kwargs.load_in_8bit = load_in_8bit
                  /\ model_kwargs.load_in_4bit = load_in_4bit
            /\ "max_memory" \in DOMAIN model_kwargs => CeilingsRight

\* the previous call of the same adapter left device_map, max_memory and the
\* quantization options in its plan; this call's plan has none of them
C9_Witness ==
    /\ pc = "construct"
    /\ prev_adapter = adapter
    /\ {"device_map", "max_memory", "load_in_8bit", "load_in_4bit"} \subseteq DOMAIN prev_kwargs
    /\ prev_kwargs.torch_dtype = None
    /\ DOMAIN model_kwargs = DefaultKeys(adapter) \cup {"torch_dtype"}
    /\ model_kwargs.torch_dtype = "float16"

----------------------------------------------------------------------------
\* the place of an operation in the order of load_model
Rank(op) ==
    CASE op = "tokenizer.from_pretrained"     -> 1
      [] op = "warnings.warn"                 -> 2
      [] op = "model.from_pretrained"         -> 3
      [] op = "post_tokenizer"                -> 4
      [] op = "model.resize_token_embeddings" -> 5
      [] op = "PeftModel.from_pretrained"     -> 6
      [] op = "model.quantize"                -> 7
      [] op = "model.to"                      -> 8
      [] op = "model.eval"                    -> 9

(* C10: a call that returns a pair has performed, in this order, the       *)
(* tokenizer construction, the model construction, post_tokenizer, the     *)
(* vocabulary resize (if any), the adapter merge (if any), the chatglm     *)
(* quantize (if any), the move (if any) and model.eval(); model.eval() is  *)
(* invoked exactly once and last, and no pair is returned without it.  A   *)
(* call that raised returned nothing.                                      *)
C10_OrderAndEval ==
    /\ \A i \in 1..(Len(ops) - 1) :
          /\ Rank(ops[i]) <= Rank(ops[i + 1])
          /\ Rank(ops[i]) = Rank(ops[i + 1]) => ops[i] = "tokenizer.from_pretrained"
    /\ Occurs("model.eval") => ops[Len(ops)] = "model.eval"
    /\ pc = "returned" =>
          /\ Len(result) = 2
          /\ result = <<model, tokenizer>>
          /\ Count("model.eval") = 1
          /\ ops[Len(ops)] = "model.eval"
          /\ ~model.training
          /\ Count("model.from_pretrained") = 1
          /\ Count("post_tokenizer") = 1
          /\ Count("tokenizer.from_pretrained") >= 1
          /\ Occurs("PeftModel.from_pretrained") <=> adapter_model # None
    /\ pc = "raised" => (result = << >> /\ error # None /\ ~Occurs("model.eval"))
    /\ Len(result) # 0 => pc = "returned"

\* a returned call that resized, merged and moved before model.eval()
C10_Witness ==
    /\ pc = "returned"
    /\ ops = <<"tokenizer.from_pretrained", "tokenizer.from_pretrained",
               "model.from_pretrained", "post_tokenizer",
               "model.resize_token_embeddings", "PeftModel.from_pretrained",
               "model.to", "model.eval">>

\* a returned call of the chatglm family that quantized before model.eval()
C10_WitnessQuantize ==
    /\ pc = "returned"
    /\ Occurs("model.quantize")
    /\ ops[Len(ops)] = "model.eval"

====
